---- MODULE Spec2Model ----
(***************************************************************************)
(* A model of astrbot_plugin_cave (src/main.py): the SQLite-backed         *)
(* CaveDatabase and the CavePlugin command handlers built on it.           *)
(*                                                                         *)
(* Every CaveDatabase method opens its own connection (_get_conn).  A      *)
(* reading method is one SELECT and is modelled as one atomic step.  A     *)
(* writing method is execute() followed by commit(): execute() takes       *)
(* SQLite's write lock and works on the transaction's private copy,        *)
(* commit() publishes the change and releases the lock.  Any call may      *)
(* raise (lock timeout, I/O error); the method then logs the error and     *)
(* returns its failure value.                                              *)
(*                                                                         *)
(* Spec lets the callers of CaveDatabase interleave between any two        *)
(* database calls, as connections of different threads or processes do.    *)
(* SpecAsync is the plugin on its event loop: the command handlers are     *)
(* coroutines, and a handler that runs keeps the loop until it reaches an  *)
(* await or ends; the database calls themselves are synchronous.           *)
(*                                                                         *)
(* Strings are sequences of one-character strings.  Message texts are      *)
(* represented by their keys in self.messages.                             *)
(***************************************************************************)
EXTENDS Integers, Sequences, FiniteSets, TLC

VARIABLES
    cave,   \* table cave: cave_id -> row
    seq,    \* sqlite_sequence entry of table cave (AUTOINCREMENT)
    lock,   \* the handler whose connection holds the write lock, or NoProc
    pc,     \* per handler: the database call it is about to make
    loc,    \* per handler: its local variables
    out,    \* what the step just taken sent back (NoOut if nothing)
    hist    \* history: ids returned by add_cave, True results of increment_pick_count

vars == <<cave, seq, lock, pc, loc, out, hist>>

----------------------------------------------------------------------------
(* Bounds of the model *)

\* at most this many rows are inserted
MaxCaves == 2
\* at most this many increment_pick_count calls return True in all, while
\* handlers run concurrently
MaxPick == 2
\* the same, while one handler runs at a time
MaxSeqPick == 1
\* at most this many rows in the tables the query specification starts from
MaxRows == 2
\* LIMIT and OFFSET arguments tried on the queries range over 0..MaxWindow
MaxWindow == 2

(* Configuration (CavePlugin.__init__) *)

super_admins == {10003}
max_content_length == 2
page_size == 2

(* Handlers in flight *)
Procs == {"h1", "h2"}
NoProc == "none"

----------------------------------------------------------------------------
(* Python string helpers *)

Digits == {"0", "1", "2", "3", "4", "5", "6", "7", "8", "9"}
Whitespace == {" "}

DigitVal(c) ==
    CASE c = "0" -> 0 [] c = "1" -> 1 [] c = "2" -> 2 [] c = "3" -> 3
      [] c = "4" -> 4 [] c = "5" -> 5 [] c = "6" -> 6 [] c = "7" -> 7
      [] c = "8" -> 8 [] c = "9" -> 9

\* str.isdigit(): non-empty and every character a digit
isdigit(s) == Len(s) > 0 /\ \A i \in 1..Len(s) : s[i] \in Digits

\* int(s) for a string of digits
RECURSIVE int(_)
int(s) == IF s = <<>> THEN 0
          ELSE 10 * int(SubSeq(s, 1, Len(s) - 1)) + DigitVal(s[Len(s)])

RECURSIVE lstrip(_)
lstrip(s) == IF s # <<>> /\ Head(s) \in Whitespace THEN lstrip(Tail(s)) ELSE s

RECURSIVE rstrip(_)
rstrip(s) == IF s # <<>> /\ s[Len(s)] \in Whitespace
             THEN rstrip(SubSeq(s, 1, Len(s) - 1)) ELSE s

\* str.strip()
strip(s) == rstrip(lstrip(s))

\* s.startswith("-")
startswith_minus(s) == Len(s) > 0 /\ s[1] = "-"

----------------------------------------------------------------------------
(* SQLite's LIKE *)

\* LIKE compares ASCII letters without regard to case
Fold(c) == CASE c = "A" -> "a" [] c = "B" -> "b" [] OTHER -> c

\* s LIKE pat: % matches any run of characters, _ any one character
RECURSIVE Like(_, _)
Like(pat, s) ==
    IF pat = <<>> THEN s = <<>>
    ELSE IF Head(pat) = "%"
         THEN Like(Tail(pat), s) \/ (s # <<>> /\ Like(pat, Tail(s)))
         ELSE /\ s # <<>>
              /\ (Head(pat) = "_" \/ Fold(Head(pat)) = Fold(Head(s)))
              /\ Like(Tail(pat), Tail(s))

\* the parameter f"%{keyword}%"
LikePattern(keyword) == <<"%">> \o keyword \o <<"%">>

----------------------------------------------------------------------------
(* Table cave *)

NoRow == [cave_id |-> 0]

\* a wrong default: the new row counts one view already
NewRow_Viewed(id, content, sender_id, group_id, group_nick, timestamp) ==
    [cave_id |-> id, text |-> content, sender_id |-> sender_id,
     group_id |-> group_id, group_nick |-> group_nick,
     pick_count |-> 1, date |-> timestamp, is_deleted |-> 0]

\* the row INSERTed by add_cave
NewRow(id, content, sender_id, group_id, group_nick, timestamp) ==
    [cave_id |-> id, text |-> content, sender_id |-> sender_id,
     group_id |-> group_id, group_nick |-> group_nick,
     pick_count |-> 0, date |-> timestamp, is_deleted |-> 0]

Ids(db) == DOMAIN db

MaxOf(S) == IF S = {} THEN 0 ELSE CHOOSE m \in S : \A x \in S : x <= m

\* a wrong id: one more than the number of rows that are not deleted
NextRowid_Reuse(db, sq) == Cardinality({i \in Ids(db) : db[i].is_deleted = 0}) + 1

\* INTEGER PRIMARY KEY AUTOINCREMENT: one more than the largest rowid ever used
NextRowid(db, sq) == MaxOf(Ids(db) \cup {sq}) + 1

Insert(db, r) == [i \in Ids(db) \cup {r.cave_id} |-> IF i = r.cave_id THEN r ELSE db[i]]

RECURSIVE OrderDesc(_)
OrderDesc(S) == IF S = {} THEN <<>> ELSE <<MaxOf(S)>> \o OrderDesc(S \ {MaxOf(S)})

\* a wrong page: the OFFSET is taken within the first lim rows
OrderDescLimit_OffsetWithinLimit(S, lim, off) ==
    LET all == OrderDesc(S)
        first == IF lim < 0 \/ lim > Len(all) THEN all ELSE SubSeq(all, 1, lim)
    IN SubSeq(first, off + 1, Len(first))

\* ORDER BY cave_id DESC LIMIT lim OFFSET off over the ids in S
\* (a negative LIMIT means no limit, a negative OFFSET means 0)
RECURSIVE OrderDescLimit(_, _, _)
OrderDescLimit(S, lim, off) ==
    IF S = {} \/ lim = 0 THEN <<>>
    ELSE LET m == MaxOf(S)
         IN IF off > 0 THEN OrderDescLimit(S \ {m}, lim, off - 1)
            ELSE <<m>> \o OrderDescLimit(S \ {m}, IF lim < 0 THEN lim ELSE lim - 1, 0)

----------------------------------------------------------------------------
(* CaveDatabase: the reading methods, as functions of the table *)

\* get_cave: the row with this id, None (NoRow) if there is none
get_cave(db, cave_id) == IF cave_id \in Ids(db) THEN db[cave_id] ELSE NoRow

\* a missing WHERE clause: deleted rows are drawn too
RandomWhere_All(r) == TRUE

\* get_random_cave: WHERE is_deleted = 0
RandomWhere(r) == r.is_deleted = 0

\* a wrong ORDER BY: the selected row with the largest id is returned
get_random_cave_Latest(db) ==
    LET S == {i \in Ids(db) : RandomWhere(db[i])}
    IN IF S = {} THEN {NoRow} ELSE {db[MaxOf(S)]}

\* get_random_cave: ORDER BY RANDOM() LIMIT 1 may return any selected row;
\* fetchone() gives None when no row is selected
get_random_cave(db) ==
    LET S == {i \in Ids(db) : RandomWhere(db[i])}
    IN IF S = {} THEN {NoRow} ELSE {db[i] : i \in S}

\* get_caves_by_sender: WHERE sender_id = ? AND is_deleted = 0
SenderWhere(r, sender_id) == r.sender_id = sender_id /\ r.is_deleted = 0

\* get_caves_by_sender: (ids of the page, total)
get_caves_by_sender(db, sender_id, limit, offset) ==
    LET S == {i \in Ids(db) : SenderWhere(db[i], sender_id)}
    IN [ids |-> OrderDescLimit(S, limit, offset), total |-> Cardinality(S)]

\* a wrong WHERE clause: deleted rows are searched too
SearchWhere_Deleted(r, keyword) == Like(LikePattern(keyword), r.text)

\* search_caves: WHERE is_deleted = 0 AND text LIKE ?
SearchWhere(r, keyword) == r.is_deleted = 0 /\ Like(LikePattern(keyword), r.text)

\* search_caves: the selected rows, ORDER BY cave_id DESC LIMIT ?
search_caves(db, keyword, limit) ==
    LET S == {i \in Ids(db) : SearchWhere(db[i], keyword)}
        page == OrderDescLimit(S, limit, 0)
    IN [k \in 1..Len(page) |-> db[page[k]]]

\* get_max_cave_id
get_max_cave_id(db) == MaxOf(Ids(db))

\* a wrong UPDATE: SET pick_count = pick_count + 2
UpdatePickCount_Twice(db, cave_id) ==
    IF cave_id \in Ids(db)
    THEN [db[cave_id] EXCEPT !.pick_count = @ + 2] ELSE NoRow

\* UPDATE cave SET pick_count = pick_count + 1 WHERE cave_id = ?
\* the row as the transaction rewrites it (NoRow: no row matches)
UpdatePickCount(db, cave_id) ==
    IF cave_id \in Ids(db)
    THEN [db[cave_id] EXCEPT !.pick_count = @ + 1] ELSE NoRow

\* a wrong UPDATE: SET is_deleted = 1 - is_deleted
UpdateDeleted_Toggle(db, cave_id) ==
    IF cave_id \in Ids(db)
    THEN [db[cave_id] EXCEPT !.is_deleted = 1 - @] ELSE NoRow

\* UPDATE cave SET is_deleted = 1 WHERE cave_id = ?
UpdateDeleted(db, cave_id) ==
    IF cave_id \in Ids(db)
    THEN [db[cave_id] EXCEPT !.is_deleted = 1] ELSE NoRow

\* conn.commit(): the transaction's row reaches the table
Commit(db, r) == IF r.cave_id = 0 THEN db ELSE Insert(db, r)

\* no write lock: statements of two connections run on the same table state
CanWrite_NoLock(p) == TRUE

\* execute() of a writing statement needs the write lock: it waits while another
\* connection holds it (sqlite3.connect(timeout=10.0))
CanWrite(p) == lock = NoProc

----------------------------------------------------------------------------
(* CavePlugin *)

_is_super_admin(qq) == qq \in super_admins

\* a missing check: "0" is let through
InvalidIdStr_NotDigits(s) == ~isdigit(s)

\* cave_inspect, remove_cave: not cave_id_str.isdigit() or int(cave_id_str) <= 0
InvalidIdStr(s) == ~isdigit(s) \/ int(s) <= 0

\* cave_add: content.isdigit() or a minus sign followed by digits
NumberOnly(content) ==
    \/ isdigit(content)
    \/ (startswith_minus(content) /\ Len(content) > 1 /\ isdigit(Tail(content)))

\* a wrong check: super admins are not let through
NoPermission_OwnerOnly(sender_id, cave_sender) == sender_id # cave_sender

\* remove_cave: not self._is_super_admin(sender_id) and sender_id != cave_sender
NoPermission(sender_id, cave_sender) ==
    ~_is_super_admin(sender_id) /\ sender_id # cave_sender

\* a missing check: no row counts as deleted
InspectDeleted_Never(row) == FALSE

\* cave_inspect: row[7] == 1
InspectDeleted(row) == row.is_deleted = 1

\* a missing check: no row counts as deleted
RemoveDeleted_Never(row) == FALSE

\* remove_cave: row[7] == 1
RemoveDeleted(row) == row.is_deleted = 1

----------------------------------------------------------------------------
(* Inputs *)

\* event.get_sender_id(), event.message_obj.group_id (0: private chat)
Events == { [sender_id |-> 10001, group_id |-> 0],
            [sender_id |-> 10002, group_id |-> 7],
            [sender_id |-> 10003, group_id |-> 0] }

Senders == {e.sender_id : e \in Events}

\* the senders who are no super admins
Submitters == {e \in Events : ~_is_super_admin(e.sender_id)}

\* the one sender of "ca" while handlers run concurrently
Submitter == {e \in Events : e.sender_id = 10001}

\* what _get_group_name may return: the group's name, or "未知群聊" (unknown_group)
GroupNames(group_id) == IF group_id = 0 THEN {"private"} ELSE {"unknown_group"}

\* int(time.time())
Times == {1700000000}

\* str(n) for 0 <= n <= 9
str(n) == <<CHOOSE d \in Digits : DigitVal(d) = n>>

TooLong == [i \in 1..(max_content_length + 1) |-> "a"]

\* the text after the command word of "ca"
Contents == { <<"a">> }

\* the argument of "ci" and "rmcave": the ids the table may come to hold
IdStrs == { str(i) : i \in 1..MaxCaves }

\* the text after the command word of "cf"
Keywords == { <<"a">> }

\* the words after the command word of "mycave"
PageArgs == { <<>> }

----------------------------------------------------------------------------
(* State *)

IdleLoc == [h |-> "", arg |-> <<>>, sender |-> 0, row |-> NoRow, pend |-> NoRow]

\* h: the handler that replied; key: the message; sender: the requester;
\* cave_id, pick_count, ids: what the message shows; fault: a database call of
\* the handler raised (and logged an error)
\* arg: the command's argument as typed; calls: the CaveDatabase methods the
\* handler called before it replied, in order.  For a direct call of a
\* CaveDatabase method h is the method, arg its arguments and ret what it
\* returned.
NoOut == [h |-> "", key |-> "", sender |-> 0, cave_id |-> 0,
          pick_count |-> 0, ids |-> <<>>, fault |-> FALSE, arg |-> <<>>, ret |-> <<>>,
          calls |-> <<>>]

Reply(h, arg, key, sender, cave_id, pick_count, ids, fault) ==
    [NoOut EXCEPT !.h = h, !.arg = arg, !.key = key, !.sender = sender, !.cave_id = cave_id,
                  !.pick_count = pick_count, !.ids = ids, !.fault = fault]

Return(method, arg, ret, fault) ==
    [NoOut EXCEPT !.h = method, !.arg = arg, !.ret = ret, !.fault = fault,
                  !.calls = <<method>>]

\* the reply r of a handler that has called these CaveDatabase methods
Called(r, calls) == [r EXCEPT !.calls = calls]

\* one more True result of increment_pick_count(cave_id)
Count(incs, cave_id) ==
    [i \in DOMAIN incs \cup {cave_id} |->
        (IF i \in DOMAIN incs THEN incs[i] ELSE 0) + (IF i = cave_id THEN 1 ELSE 0)]

RECURSIVE SumOver(_, _)
SumOver(f, S) == IF S = {} THEN 0
                 ELSE LET x == CHOOSE x \in S : TRUE IN f[x] + SumOver(f, S \ {x})

InFlight(labels) == Cardinality({q \in Procs : pc[q] \in labels})

\* room for one more INSERT within MaxCaves
AddCap == Cardinality(Ids(cave)) + InFlight({"add_cave", "add_commit"}) < MaxCaves

\* room for one more increment within maxpick
IncCap(maxpick) ==
    SumOver(hist.incs, DOMAIN hist.incs)
        + InFlight({"increment_pick_count", "inc_commit"}) < maxpick

Init ==
    /\ cave = <<>>
    /\ seq = 0
    /\ lock = NoProc
    /\ pc = [p \in Procs |-> "idle"]
    /\ loc = [p \in Procs |-> IdleLoc]
    /\ out = NoOut
    /\ hist = [adds |-> <<>>, incs |-> <<>>]

\* the handler yields its reply and ends
Emit(p, r) ==
    /\ pc' = [pc EXCEPT ![p] = "idle"]
    /\ loc' = [loc EXCEPT ![p] = IdleLoc]
    /\ out' = r

\* the command of handler p is (h, arg, sender), if it was queued
Queued(p, h, arg, sender) ==
    pc[p] = "queued" => (loc[p].h = h /\ loc[p].arg = arg /\ loc[p].sender = sender)

\* the handler goes on to its next database call
Goto(p, label, l) ==
    /\ pc' = [pc EXCEPT ![p] = label]
    /\ loc' = [loc EXCEPT ![p] = l]
    /\ out' = NoOut

----------------------------------------------------------------------------
(* cave_add *)

\* the command is read and validated; a valid text goes on to add_cave
\* (await _get_group_name comes first)
StartAdd(p, events, contents) ==
    /\ pc[p] = "idle"
    /\ \E ev \in events, raw \in contents :
         LET content == strip(raw)
             sender == ev.sender_id
         IN  /\ UNCHANGED <<cave, seq, lock, hist>>
             /\ IF content = <<>>
                THEN Emit(p, Reply("ca", <<raw>>, "empty_content", sender, 0, 0, <<>>, FALSE))
                ELSE IF NumberOnly(content)
                THEN Emit(p, Reply("ca", <<raw>>, "number_only", sender, 0, 0, <<>>, FALSE))
                ELSE IF Len(content) > max_content_length
                THEN Emit(p, Reply("ca", <<raw>>, "content_too_long", sender, 0, 0, <<>>, FALSE))
                ELSE /\ AddCap
                     /\ \E nick \in GroupNames(ev.group_id) :
                          Goto(p, "add_cave",
                               [IdleLoc EXCEPT !.h = "ca", !.arg = <<raw>>, !.sender = sender,
                                  !.row = NewRow(0, content, sender, ev.group_id, nick, 0)])

\* add_cave: execute(INSERT) under the write lock
AddExecute(p) ==
    /\ pc[p] = "add_cave"
    /\ CanWrite(p)
    /\ \E timestamp \in Times :
         Goto(p, "add_commit",
              [loc[p] EXCEPT !.pend = [loc[p].row EXCEPT !.cave_id = NextRowid(cave, seq),
                                                         !.date = timestamp]])
    /\ lock' = p
    /\ UNCHANGED <<cave, seq, hist>>

\* add_cave: commit() and return c.lastrowid; cave_add replies add_success
AddCommit(p) ==
    /\ pc[p] = "add_commit"
    /\ LET new_id == loc[p].pend.cave_id
       IN  /\ cave' = Commit(cave, loc[p].pend)
           /\ seq' = new_id
           /\ hist' = [hist EXCEPT !.adds = Append(@, new_id)]
           /\ IF new_id # 0
              THEN Emit(p, Called(Reply("ca", loc[p].arg, "add_success", loc[p].sender, new_id, 0, <<>>, FALSE),
                                  <<"add_cave">>))
              ELSE Emit(p, Called(Reply("ca", loc[p].arg, "add_failed", loc[p].sender, 0, 0, <<>>, FALSE),
                                  <<"add_cave">>))
    /\ lock' = NoProc

\* add_cave raises (execute or commit): nothing is written, it returns None
\* and cave_add replies add_failed
AddFail(p) ==
    /\ pc[p] \in {"add_cave", "add_commit"}
    /\ lock' = IF lock = p THEN NoProc ELSE lock
    /\ Emit(p, Called(Reply("ca", loc[p].arg, "add_failed", loc[p].sender, 0, 0, <<>>, TRUE),
                      <<"add_cave">>))
    /\ UNCHANGED <<cave, seq, hist>>

----------------------------------------------------------------------------
(* increment_pick_count, as called by cave_inspect and cave_random *)

\* the reply of cave_inspect and cave_random: pick_count = row[5] + 1
\* (a direct call of increment_pick_count returns True, or False when it raised)
Detail(p, fault) ==
    IF loc[p].h = "increment_pick_count"
    THEN Return("increment_pick_count", <<loc[p].row.cave_id>>, ~fault, fault)
    ELSE Called(Reply(loc[p].h, loc[p].arg, "cave_detail", loc[p].sender, loc[p].row.cave_id,
                      loc[p].row.pick_count + 1, <<>>, fault),
                <<(IF loc[p].h = "ci" THEN "get_cave" ELSE "get_random_cave"),
                  "increment_pick_count">>)

\* increment_pick_count(cave_id) called directly
CallIncrement(p, ids, maxpick) ==
    /\ pc[p] = "idle"
    /\ IncCap(maxpick)
    /\ \E cave_id \in ids :
         Goto(p, "increment_pick_count",
              [IdleLoc EXCEPT !.h = "increment_pick_count", !.row = [cave_id |-> cave_id]])
    /\ UNCHANGED <<cave, seq, lock, hist>>

\* increment_pick_count: execute(UPDATE) under the write lock
IncExecute(p) ==
    /\ pc[p] = "increment_pick_count"
    /\ CanWrite(p)
    /\ Goto(p, "inc_commit",
            [loc[p] EXCEPT !.pend = UpdatePickCount(cave, loc[p].row.cave_id)])
    /\ lock' = p
    /\ UNCHANGED <<cave, seq, hist>>

\* increment_pick_count: commit() and return True; the handler replies
IncCommit(p) ==
    /\ pc[p] = "inc_commit"
    /\ cave' = Commit(cave, loc[p].pend)
    /\ hist' = [hist EXCEPT !.incs = Count(@, loc[p].row.cave_id)]
    /\ lock' = NoProc
    /\ Emit(p, Detail(p, FALSE))
    /\ UNCHANGED seq

\* increment_pick_count raises: nothing is written, it returns False, which
\* the handler does not look at
IncFail(p) ==
    /\ pc[p] \in {"increment_pick_count", "inc_commit"}
    /\ lock' = IF lock = p THEN NoProc ELSE lock
    /\ Emit(p, Detail(p, TRUE))
    /\ UNCHANGED <<cave, seq, hist>>

----------------------------------------------------------------------------
(* cave_inspect *)

\* the id is validated and the row fetched (get_cave returns None when it
\* raises); only a row that is not deleted goes on to increment_pick_count
StartInspect(p, idstrs, maxpick) ==
    /\ pc[p] \in {"idle", "queued"}
    /\ UNCHANGED <<cave, seq, lock, hist>>
    /\ \E raw \in idstrs :
         LET cave_id_str == strip(raw)
         IN  /\ Queued(p, "ci", <<raw>>, 0)
             /\ IF InvalidIdStr(cave_id_str)
                THEN Emit(p, Reply("ci", <<raw>>, "invalid_cave", 0, 0, 0, <<>>, FALSE))
                ELSE \E ok \in BOOLEAN :
                    LET cave_id == int(cave_id_str)
                        row == IF ok THEN get_cave(cave, cave_id) ELSE NoRow
                    IN  IF row.cave_id = 0
                        THEN Emit(p, Called(Reply("ci", <<raw>>, "invalid_cave", 0, cave_id, 0, <<>>, ~ok),
                                            <<"get_cave">>))
                        ELSE IF InspectDeleted(row)
                        THEN Emit(p, Called(Reply("ci", <<raw>>, "deleted_cave", 0, cave_id, 0, <<>>, FALSE),
                                            <<"get_cave">>))
                        ELSE /\ IncCap(maxpick)
                             /\ Goto(p, "increment_pick_count",
                                     [IdleLoc EXCEPT !.h = "ci", !.arg = <<raw>>, !.row = row])

----------------------------------------------------------------------------
(* cave_random *)

\* a row is drawn (get_random_cave returns None when it raises or when no
\* row is selected) and goes on to increment_pick_count
StartRandom(p, maxpick) ==
    /\ pc[p] \in {"idle", "queued"}
    /\ Queued(p, "cq", <<>>, 0)
    /\ UNCHANGED <<cave, seq, lock, hist>>
    /\ \E ok \in BOOLEAN :
         \E row \in (IF ok THEN get_random_cave(cave) ELSE {NoRow}) :
            IF row.cave_id = 0
            THEN Emit(p, Called(Reply("cq", <<>>, "cave_empty", 0, 0, 0, <<>>, ~ok),
                                <<"get_random_cave">>))
            ELSE /\ IncCap(maxpick)
                 /\ Goto(p, "increment_pick_count",
                         [IdleLoc EXCEPT !.h = "cq", !.row = row])

----------------------------------------------------------------------------
(* my_cave *)

\* what the messages of my_cave show besides the ids
Listing(r, qq, page, total_pages, total) ==
    [r EXCEPT !.ret = [qq |-> qq, page |-> page, total_pages |-> total_pages, total |-> total]]

\* total_pages = (total + self.page_size - 1) // self.page_size
TotalPages(total) == (total + page_size - 1) \div page_size

\* the words after the command word are read as page, QQ number, or QQ number
\* and page; the page of the target's ids is fetched (get_caves_by_sender
\* returns ([], 0) when it raises) and sent back
MyCave(p, events, argss) ==
    /\ pc[p] = "idle"
    /\ UNCHANGED <<cave, seq, lock, hist>>
    /\ \E ev \in events, args \in argss :
         LET sender_id == ev.sender_id
             n == IF Len(args) >= 2 THEN 2 ELSE Len(args)
             arg == [k \in 1..n |-> strip(args[k])]
             num == IF n = 1 /\ isdigit(arg[1]) THEN int(arg[1]) ELSE 0
             target_qq == IF n = 0 THEN sender_id
                          ELSE IF n = 1 THEN (IF num < 10000 THEN sender_id ELSE num)
                          ELSE int(arg[1])
             page == IF n = 0 THEN 1
                     ELSE IF n = 1 THEN (IF num < 10000 THEN num ELSE 1)
                     ELSE int(arg[2])
         IN  IF \E k \in 1..n : ~isdigit(arg[k])
             THEN Emit(p, Reply("mycave", args, "invalid_number", sender_id, 0, 0, <<>>, FALSE))
             ELSE IF page < 1
             THEN Emit(p, Listing(Reply("mycave", args, "page_must_positive", sender_id, 0, 0, <<>>, FALSE),
                                  target_qq, page, 0, 0))
             ELSE \E ok \in BOOLEAN :
                    LET offset == (page - 1) * page_size
                        res == IF ok THEN get_caves_by_sender(cave, target_qq, page_size, offset)
                                     ELSE [ids |-> <<>>, total |-> 0]
                        ids == res.ids
                        total == res.total
                        total_pages == TotalPages(total)
                        key == IF total = 0 THEN "no_cave_records"
                               ELSE IF page > total_pages THEN "page_out_of_range"
                               ELSE IF ids = <<>> THEN "page_no_data"
                               ELSE "mycave_result"
                    IN  Emit(p, Called(Listing(Reply("mycave", args, key, sender_id, 0, 0,
                                                     IF key = "mycave_result" THEN ids ELSE <<>>, ~ok),
                                               target_qq, page, total_pages, total),
                                       <<"get_caves_by_sender">>))

----------------------------------------------------------------------------
(* remove_cave *)

\* the id is validated, the row fetched and the requester checked; an
\* authorised requester of a row that is not deleted goes on to delete_cave
StartRemove(p, events, idstrs) ==
    /\ pc[p] \in {"idle", "queued"}
    /\ UNCHANGED <<cave, seq, lock, hist>>
    /\ \E ev \in events, raw \in idstrs :
         LET cave_id_str == strip(raw)
             sender_id == ev.sender_id
         IN  /\ Queued(p, "rmcave", <<raw>>, sender_id)
             /\ IF InvalidIdStr(cave_id_str)
                THEN Emit(p, Reply("rmcave", <<raw>>, "invalid_cave_id", sender_id, 0, 0, <<>>, FALSE))
                ELSE \E ok \in BOOLEAN :
                    LET cave_id == int(cave_id_str)
                        row == IF ok THEN get_cave(cave, cave_id) ELSE NoRow
                    IN  IF row.cave_id = 0
                        THEN Emit(p, Called(Reply("rmcave", <<raw>>, "cave_not_exist", sender_id, cave_id, 0, <<>>, ~ok),
                                            <<"get_cave">>))
                        ELSE IF RemoveDeleted(row)
                        THEN Emit(p, Called(Reply("rmcave", <<raw>>, "cave_already_deleted", sender_id, cave_id, 0, <<>>, FALSE),
                                            <<"get_cave">>))
                        ELSE IF NoPermission(sender_id, row.sender_id)
                        THEN Emit(p, Called(Reply("rmcave", <<raw>>, "no_permission", sender_id, cave_id, 0, <<>>, FALSE),
                                            <<"get_cave">>))
                        ELSE Goto(p, "delete_cave",
                                  [IdleLoc EXCEPT !.h = "rmcave", !.arg = <<raw>>, !.sender = sender_id, !.row = row])

\* delete_cave: execute(UPDATE) under the write lock
DeleteExecute(p) ==
    /\ pc[p] = "delete_cave"
    /\ CanWrite(p)
    /\ Goto(p, "del_commit",
            [loc[p] EXCEPT !.pend = UpdateDeleted(cave, loc[p].row.cave_id)])
    /\ lock' = p
    /\ UNCHANGED <<cave, seq, hist>>

\* delete_cave: commit() and return True; remove_cave replies delete_success
DeleteCommit(p) ==
    /\ pc[p] = "del_commit"
    /\ cave' = Commit(cave, loc[p].pend)
    /\ lock' = NoProc
    /\ Emit(p, Called(Reply("rmcave", loc[p].arg, "delete_success", loc[p].sender, loc[p].row.cave_id, 0, <<>>, FALSE),
                      <<"get_cave", "delete_cave">>))
    /\ UNCHANGED <<seq, hist>>

\* delete_cave raises: nothing is written, it returns False and remove_cave
\* replies delete_failed
DeleteFail(p) ==
    /\ pc[p] \in {"delete_cave", "del_commit"}
    /\ lock' = IF lock = p THEN NoProc ELSE lock
    /\ Emit(p, Called(Reply("rmcave", loc[p].arg, "delete_failed", loc[p].sender, loc[p].row.cave_id, 0, <<>>, TRUE),
                      <<"get_cave", "delete_cave">>))
    /\ UNCHANGED <<cave, seq, hist>>

----------------------------------------------------------------------------
(* cave_find *)

RowIds(rows) == [k \in 1..Len(rows) |-> rows[k].cave_id]

\* the keyword is validated and searched for (search_caves returns [] when it
\* raises); the rows found are sent back, in batches
Find(p, keywords) ==
    /\ pc[p] = "idle"
    /\ UNCHANGED <<cave, seq, lock, hist>>
    /\ \E raw \in keywords :
         LET keyword == strip(raw)
         IN  IF keyword = <<>>
             THEN Emit(p, Reply("cf", <<raw>>, "search_empty_keyword", 0, 0, 0, <<>>, FALSE))
             ELSE \E ok \in BOOLEAN :
                    LET results == IF ok THEN search_caves(cave, keyword, page_size) ELSE <<>>
                    IN  IF results = <<>>
                        THEN Emit(p, Called(Reply("cf", <<raw>>, "search_no_result", 0, 0, 0, <<>>, ~ok),
                                            <<"search_caves">>))
                        ELSE Emit(p, Called(Reply("cf", <<raw>>, "search_result_detail", 0, 0, 0, RowIds(results), FALSE),
                                            <<"search_caves">>))

----------------------------------------------------------------------------
(* The plugin: handlers start, make their database calls and reply *)

Next ==
    \/ \E p \in Procs : StartAdd(p, Submitter, Contents)
    \/ \E p \in Procs : AddExecute(p)
    \/ \E p \in Procs : AddCommit(p)
    \/ \E p \in Procs : AddFail(p)
    \/ \E p \in Procs : StartInspect(p, IdStrs, MaxPick)
    \/ \E p \in Procs : StartRandom(p, MaxPick)
    \/ \E p \in Procs : IncExecute(p)
    \/ \E p \in Procs : IncCommit(p)
    \/ \E p \in Procs : IncFail(p)
    \/ \E p \in Procs : StartRemove(p, Submitters, IdStrs)
    \/ \E p \in Procs : DeleteExecute(p)
    \/ \E p \in Procs : DeleteCommit(p)
    \/ \E p \in Procs : DeleteFail(p)
    \/ \E p \in Procs : Find(p, Keywords)
    \/ \E p \in Procs : MyCave(p, Submitter, PageArgs)

Spec == Init /\ [][Next]_vars

----------------------------------------------------------------------------
(* One caller at a time: the commands with all their inputs, and *)
(* increment_pick_count called directly                            *)

SeqContents == { <<"a">>, <<>>, <<"7">>, <<"-", "7">>, TooLong }

SeqIdStrs == IdStrs \cup { <<"0", "1">>, <<"0">>, <<"x">> }

SeqKeywords == Keywords \cup { <<>>, <<"z">> }

\* "mycave" with a page, a QQ number, both, or something that is no number
SeqPageArgs ==
    PageArgs \cup { << <<"0">> >>, << <<"2">> >>, << <<"x">> >>,
                    << <<"1", "0", "0", "0", "2">> >>,
                    << <<"1", "0", "0", "0", "2">>, <<"2">> >>,
                    << <<"1", "0", "0", "0", "2">>, <<"0">> >> }

\* the one sender of "ca" while there is one caller: a member of a group chat
SeqSubmitter == {e \in Events : e.sender_id = 10002}

Caller == "h1"

NextSeq ==
    \/ StartAdd(Caller, SeqSubmitter, SeqContents)
    \/ AddExecute(Caller)
    \/ AddCommit(Caller)
    \/ AddFail(Caller)
    \/ StartInspect(Caller, SeqIdStrs, MaxSeqPick)
    \/ StartRandom(Caller, MaxSeqPick)
    \/ CallIncrement(Caller, 1..(MaxCaves + 1), MaxSeqPick)
    \/ IncExecute(Caller)
    \/ IncCommit(Caller)
    \/ IncFail(Caller)
    \/ StartRemove(Caller, Events, SeqIdStrs)
    \/ DeleteExecute(Caller)
    \/ DeleteCommit(Caller)
    \/ DeleteFail(Caller)
    \/ Find(Caller, SeqKeywords)
    \/ MyCave(Caller, Submitter, SeqPageArgs)

SpecSeq == Init /\ [][NextSeq]_vars

----------------------------------------------------------------------------
(* The plugin on its event loop.  A command that has arrived waits for the *)
(* loop (queued); a handler that runs makes its database calls one after   *)
(* the other and no other handler runs before it awaits or replies.  The   *)
(* only await before a reply is cave_add's await _get_group_name, made for *)
(* a command from a group chat before add_cave is called.                  *)

\* the senders of "rmcave" that wait for the loop: the submitter and the admin
Removers == {10001, 10003}

\* the commands that wait for the loop
AsyncCommands ==
    { [h |-> "rmcave", arg |-> <<raw>>, sender |-> s] : raw \in IdStrs, s \in Removers }
    \cup { [h |-> "ci", arg |-> <<raw>>, sender |-> 0] : raw \in IdStrs }
    \cup { [h |-> "cq", arg |-> <<>>, sender |-> 0] }

\* handler q does not hold the loop: it has not started, or it awaits
Suspended(q) ==
    \/ pc[q] \in {"idle", "queued"}
    \/ pc[q] = "add_cave" /\ loc[q].row.group_id # 0

\* a wrong loop: a handler is preempted between its database calls
Turn_Preemptive(p) == TRUE

\* handler p may take a step: no other handler holds the loop
Turn(p) == \A q \in Procs \ {p} : Suspended(q)

\* a command arrives and its handler is scheduled
Arrive(p, cmds) ==
    /\ pc[p] = "idle"
    /\ \E cmd \in cmds :
         Goto(p, "queued", [IdleLoc EXCEPT !.h = cmd.h, !.arg = cmd.arg, !.sender = cmd.sender])
    /\ UNCHANGED <<cave, seq, lock, hist>>

NextAsync ==
    \/ \E p \in Procs : Turn(p) /\ Arrive(p, AsyncCommands)
    \/ \E p \in Procs : Turn(p) /\ StartAdd(p, Submitters, Contents)
    \/ \E p \in Procs : Turn(p) /\ AddExecute(p)
    \/ \E p \in Procs : Turn(p) /\ AddCommit(p)
    \/ \E p \in Procs : Turn(p) /\ AddFail(p)
    \/ \E p \in Procs : Turn(p) /\ pc[p] = "queued" /\ StartInspect(p, IdStrs, MaxSeqPick)
    \/ \E p \in Procs : Turn(p) /\ pc[p] = "queued" /\ StartRandom(p, MaxSeqPick)
    \/ \E p \in Procs : Turn(p) /\ IncExecute(p)
    \/ \E p \in Procs : Turn(p) /\ IncCommit(p)
    \/ \E p \in Procs : Turn(p) /\ IncFail(p)
    \/ \E p \in Procs : Turn(p) /\ pc[p] = "queued" /\ StartRemove(p, Events, IdStrs)
    \/ \E p \in Procs : Turn(p) /\ DeleteExecute(p)
    \/ \E p \in Procs : Turn(p) /\ DeleteCommit(p)
    \/ \E p \in Procs : Turn(p) /\ DeleteFail(p)
    \/ \E p \in Procs : Turn(p) /\ Find(p, Keywords)
    \/ \E p \in Procs : Turn(p) /\ MyCave(p, Submitter, PageArgs)

SpecAsync == Init /\ [][NextAsync]_vars

----------------------------------------------------------------------------
(* The reading methods of CaveDatabase, called directly on the tables of *)
(* at most MaxRows rows                                                  *)

QueryTexts == { <<"a">>, <<"b", "a">>, <<"B">> }

QueryKeywords == { <<"a">>, <<"b">>, <<"_">> }

QuerySenders == {10001, 10002}

Windows == 0..MaxWindow

Limits == {-1} \cup Windows

\* a table add_cave and delete_cave can build: ids 1..n, any texts and
\* senders, any rows deleted
QueryInit ==
    /\ \E n \in 0..MaxRows :
         \E text \in [1..n -> QueryTexts], sender \in [1..n -> QuerySenders],
            deleted \in [1..n -> {0, 1}], timestamp \in Times :
            /\ cave = [i \in 1..n |->
                         [NewRow(i, text[i], sender[i], 0, "private", timestamp)
                            EXCEPT !.is_deleted = deleted[i]]]
            /\ seq = n
            /\ hist = [adds |-> [i \in 1..n |-> i], incs |-> <<>>]
    /\ lock = NoProc
    /\ pc = [p \in Procs |-> "idle"]
    /\ loc = [p \in Procs |-> IdleLoc]
    /\ out = NoOut

\* get_cave(cave_id); None when it raises
CallGetCave ==
    /\ \E cave_id \in 1..(MaxRows + 1), ok \in BOOLEAN :
         out' = Return("get_cave", <<cave_id>>,
                       IF ok THEN get_cave(cave, cave_id) ELSE NoRow, ~ok)
    /\ UNCHANGED <<cave, seq, lock, pc, loc, hist>>

\* get_random_cave(); None when it raises
CallGetRandomCave ==
    /\ \E ok \in BOOLEAN :
         \E row \in (IF ok THEN get_random_cave(cave) ELSE {NoRow}) :
            out' = Return("get_random_cave", <<>>, row, ~ok)
    /\ UNCHANGED <<cave, seq, lock, pc, loc, hist>>

\* get_caves_by_sender(sender_id, limit, offset); ([], 0) when it raises
CallGetCavesBySender ==
    /\ \E sender_id \in QuerySenders, limit \in Limits, offset \in Windows, ok \in BOOLEAN :
         out' = Return("get_caves_by_sender", <<sender_id, limit, offset>>,
                       IF ok THEN get_caves_by_sender(cave, sender_id, limit, offset)
                             ELSE [ids |-> <<>>, total |-> 0], ~ok)
    /\ UNCHANGED <<cave, seq, lock, pc, loc, hist>>

\* search_caves(keyword, limit); [] when it raises
CallSearchCaves ==
    /\ \E keyword \in QueryKeywords, limit \in Limits, ok \in BOOLEAN :
         out' = Return("search_caves", <<keyword, limit>>,
                       IF ok THEN search_caves(cave, keyword, limit) ELSE <<>>, ~ok)
    /\ UNCHANGED <<cave, seq, lock, pc, loc, hist>>

NextQuery ==
    \/ CallGetCave
    \/ CallGetRandomCave
    \/ CallGetCavesBySender
    \/ CallSearchCaves

SpecQuery == QueryInit /\ [][NextQuery]_vars

----------------------------------------------------------------------------
(* Properties *)

\* text contains keyword as a literal substring
Contains(text, keyword) ==
    \E i \in 1..(Len(text) - Len(keyword) + 1) :
        SubSeq(text, i, i + Len(keyword) - 1) = keyword

\* the requester may delete the entry of owner
Authorized(requester, owner) == requester \in super_admins \/ requester = owner

\* the number of increment_pick_count(i) calls that returned True
IncCount(i) == IF i \in DOMAIN hist.incs THEN hist.incs[i] ELSE 0

\* the ids add_cave has returned
Assigned == {hist.adds[k] : k \in 1..Len(hist.adds)}

\* s is a decimal numeral of a positive integer
PositiveNumeral(s) == isdigit(s) /\ int(s) >= 1

\* C1: under every interleaving of concurrent add_cave calls no two successful
\* calls return the same id, and the ids returned by the N successful calls on
\* an empty table are exactly 1..N, the ids of the rows of the table (a failed
\* call writes nothing and uses up no id, so there is no gap at all).
C1_CreateIdsUnique ==
    /\ \A i, j \in 1..Len(hist.adds) : i # j => hist.adds[i] # hist.adds[j]
    /\ Assigned = 1..Len(hist.adds)
    /\ Ids(cave) = Assigned

C1_Witness == Len(hist.adds) >= 2 /\ out.key = "add_success" /\ out.cave_id = 2

\* C2: under every interleaving, pick_count of every row equals the number of
\* increment_pick_count calls on its id that have returned True: K concurrent
\* calls that complete raise it by exactly K, no update is lost.
C2_NoLostIncrement ==
    \A i \in Ids(cave) : cave[i].pick_count = IncCount(i)

\* two increments of one row overlapped: this reply was computed from a count
\* of 0 and the row now counts 2
C2_Witness ==
    /\ out.key = "cave_detail" /\ ~out.fault /\ out.pick_count = 1
    /\ out.cave_id \in Ids(cave) /\ cave[out.cave_id].pick_count = 2

\* C3: a row with is_deleted = 1 is never returned by get_random_cave,
\* search_caves or get_caves_by_sender and is not counted in the total of
\* get_caves_by_sender, while get_cave on its id returns the row, is_deleted = 1.
C3_DeletedHidden ==
    LET Deleted == {i \in Ids(cave) : cave[i].is_deleted = 1}
    IN  /\ out.h = "get_random_cave" => out.ret.cave_id \notin Deleted
        /\ out.h = "search_caves" =>
              \A k \in 1..Len(out.ret) : out.ret[k].cave_id \notin Deleted
        /\ (out.h = "get_caves_by_sender" /\ ~out.fault) =>
              /\ \A k \in 1..Len(out.ret.ids) : out.ret.ids[k] \notin Deleted
              /\ out.ret.total =
                    Cardinality({i \in Ids(cave) \ Deleted : cave[i].sender_id = out.arg[1]})
        /\ (out.h = "get_cave" /\ ~out.fault /\ out.arg[1] \in Deleted) =>
              /\ out.ret = cave[out.arg[1]]
              /\ out.ret.is_deleted = 1

\* a search that found rows, on a table with a deleted row containing the keyword
C3_Witness ==
    /\ out.h = "search_caves" /\ Len(out.ret) > 0
    /\ \E i \in Ids(cave) : cave[i].is_deleted = 1 /\ Contains(cave[i].text, out.arg[1])

\* C4: remove_cave on an existing row that is not deleted marks it deleted if
\* and only if the requester is a super admin or the row's sender (and
\* delete_cave does not raise); any other requester gets no_permission and the
\* row stays as it is.  No row is marked deleted in any other way.
C4_RemoveAuthorized ==
    [][ /\ (/\ out'.h = "rmcave" /\ ~out'.fault
            /\ out'.cave_id \in Ids(cave) /\ cave[out'.cave_id].is_deleted = 0)
           => IF Authorized(out'.sender, cave[out'.cave_id].sender_id)
              THEN out'.key = "delete_success" /\ cave'[out'.cave_id].is_deleted = 1
              ELSE out'.key = "no_permission" /\ cave' = cave
        /\ \A i \in Ids(cave) :
              (cave[i].is_deleted = 0 /\ cave'[i].is_deleted = 1)
              => /\ out'.h = "rmcave" /\ out'.key = "delete_success" /\ out'.cave_id = i
                 /\ Authorized(out'.sender, cave[i].sender_id)
      ]_vars

\* a super admin has deleted another sender's row
C4_Witness ==
    /\ out.h = "rmcave" /\ out.key = "delete_success"
    /\ out.sender \in super_admins
    /\ cave[out.cave_id].sender_id # out.sender /\ cave[out.cave_id].is_deleted = 1

\* C5: remove_cave with the numeral of a positive id, when no database call
\* raises, replies exactly one of cave_not_exist (add_cave never returned the
\* id), cave_already_deleted (the row is deleted, whoever asks), no_permission
\* or delete_success; delete_success leaves the row deleted, so that a second
\* remove_cave of it replies cave_already_deleted, and the other replies leave
\* the table unchanged.
C5_RemoveOutcomes ==
    [][ (out'.h = "rmcave" /\ ~out'.fault /\ PositiveNumeral(out'.arg[1]))
        => /\ out'.cave_id = int(out'.arg[1])
           /\ out'.key \in {"cave_not_exist", "cave_already_deleted",
                            "no_permission", "delete_success"}
           /\ out'.key = "cave_not_exist" <=> out'.cave_id \notin Assigned
           /\ out'.key = "cave_already_deleted"
                 <=> (out'.cave_id \in Ids(cave) /\ cave[out'.cave_id].is_deleted = 1)
           /\ out'.key = "delete_success" => cave'[out'.cave_id].is_deleted = 1
           /\ out'.key # "delete_success" => cave' = cave
      ]_vars

\* a requester who may not delete the row is told that it is already deleted
C5_Witness ==
    /\ out.h = "rmcave" /\ out.key = "cave_already_deleted"
    /\ ~Authorized(out.sender, cave[out.cave_id].sender_id)

\* C6: for limit > 0 and offset >= 0 get_caves_by_sender returns as total the
\* number of the sender's rows that are not deleted, whatever the window, and
\* as ids the positions offset+1 .. offset+limit of those rows' ids in
\* descending order; an offset >= total gives no ids and the same total.
C6_PageWindow ==
    (out.h = "get_caves_by_sender" /\ ~out.fault /\ out.arg[2] > 0)
    => LET sender_id == out.arg[1]
           limit == out.arg[2]
           offset == out.arg[3]
           A == {i \in Ids(cave) : cave[i].sender_id = sender_id /\ cave[i].is_deleted = 0}
           n == Cardinality(A)
           ids == out.ret.ids
       IN  /\ out.ret.total = n
           /\ Len(ids) = IF n <= offset THEN 0
                         ELSE IF n - offset < limit THEN n - offset ELSE limit
           /\ \A k \in 1..Len(ids) :
                 /\ ids[k] \in A
                 /\ Cardinality({j \in A : j > ids[k]}) = offset + k - 1

\* a page past the last one: no ids, the total still counted
C6_Witness ==
    /\ out.h = "get_caves_by_sender" /\ ~out.fault /\ out.arg[2] > 0
    /\ out.ret.total = 2 /\ out.arg[3] >= out.ret.total /\ out.ret.ids = <<>>

\* C7: for limit >= 0 search_caves returns exactly the rows that are not
\* deleted and whose text contains the keyword as a literal substring, in
\* descending order of id, cut to the first limit of them.
C7_SearchLiteral ==
    (out.h = "search_caves" /\ ~out.fault /\ out.arg[2] >= 0)
    => LET keyword == out.arg[1]
           limit == out.arg[2]
           M == {i \in Ids(cave) : cave[i].is_deleted = 0 /\ Contains(cave[i].text, keyword)}
           n == Cardinality(M)
       IN  /\ Len(out.ret) = IF n < limit THEN n ELSE limit
           /\ \A k \in 1..Len(out.ret) :
                 /\ out.ret[k].cave_id \in M
                 /\ out.ret[k] = cave[out.ret[k].cave_id]
                 /\ Cardinality({j \in M : j > out.ret[k].cave_id}) = k - 1

\* C8: cave_inspect that fetches a deleted row replies deleted_cave and leaves
\* the table unchanged (no increment, no row undeleted); it goes on to
\* increment_pick_count only with a fetched row that is not deleted.
C8_InspectDeleted ==
    [][ /\ (/\ out'.h = "ci" /\ pc' = pc /\ ~out'.fault
            /\ out'.cave_id \in Ids(cave) /\ cave[out'.cave_id].is_deleted = 1)
           => out'.key = "deleted_cave" /\ cave' = cave
        /\ \A p \in Procs :
              (pc[p] = "idle" /\ pc'[p] = "increment_pick_count" /\ loc'[p].h = "ci")
              => /\ loc'[p].row = cave[loc'[p].row.cave_id]
                 /\ loc'[p].row.is_deleted = 0
                 /\ cave' = cave
      ]_vars

C8_Witness ==
    /\ out.h = "ci" /\ out.key = "deleted_cave"
    /\ cave[out.cave_id].is_deleted = 1

\* C9: increment_pick_count called with an id that is not in the table
\* returns False.
C9_IncrementUnknownFails ==
    (out.h = "increment_pick_count" /\ out.arg[1] \notin Ids(cave))
    => out.ret = FALSE

\* C10: cave_find that finds rows raises the pick_count of every row it
\* sends back by exactly 1.
C10_FindIncrements ==
    [][ (out'.h = "cf" /\ out'.key = "search_result_detail")
        => \A k \in 1..Len(out'.ids) :
              cave'[out'.ids[k]].pick_count = cave[out'.ids[k]].pick_count + 1
      ]_vars

\* C11: when the read of a handler raises, the reply is not the one the handler
\* gives for a read that found nothing: cave_random does not reply cave_empty,
\* cave_inspect not invalid_cave, remove_cave not cave_not_exist, my_cave not
\* no_cave_records and cave_find not search_no_result.
C11_ReadFailureDistinct ==
    (out.fault /\ out.h \in {"cq", "ci", "rmcave", "mycave", "cf"})
    => out.key \notin {"cave_empty", "invalid_cave", "cave_not_exist",
                       "no_cave_records", "search_no_result"}

\* C12: my_cave with page >= 1, when get_caves_by_sender does not raise, replies
\* page_out_of_range whenever page > total_pages = ceil(total / page_size),
\* except for page 1 of a target without rows, which gets no_cave_records; for
\* 1 <= page <= total_pages it sends back a non-empty list of ids.
C12_PageOutOfRange ==
    (out.h = "mycave" /\ ~out.fault /\ out.calls # <<>> /\ out.ret.page >= 1)
    => LET page == out.ret.page
           total == Cardinality({i \in Ids(cave) : cave[i].sender_id = out.ret.qq
                                                     /\ cave[i].is_deleted = 0})
           total_pages == (total + page_size - 1) \div page_size
       IN  IF page = 1 /\ total = 0 THEN out.key = "no_cave_records"
           ELSE IF page > total_pages THEN out.key = "page_out_of_range"
           ELSE out.key = "mycave_result" /\ out.ids # <<>>

\* C13: the ids returned by the successful add_cave calls are all >= 1 and each
\* is greater than every id returned before it, whatever rows have been marked
\* deleted in between: no id is ever given out twice.
C13_IdsIncrease ==
    \A j \in 1..Len(hist.adds) :
        /\ hist.adds[j] >= 1
        /\ \A i \in 1..(j - 1) : hist.adds[i] < hist.adds[j]

\* add_cave has returned 2 after row 1 was marked deleted
C13_Witness ==
    /\ out.key = "add_success" /\ out.cave_id = 2
    /\ cave[1].is_deleted = 1

\* C14: in every step every row of the table stays in the table, keeps its
\* cave_id, sender_id, group_id, group_nick and date, keeps is_deleted = 1 once
\* it has it, and does not lose pick_count.
C14_EntriesPersist ==
    [][ \A i \in Ids(cave) :
          /\ i \in Ids(cave')
          /\ cave'[i].cave_id = i /\ cave[i].cave_id = i
          /\ cave'[i].sender_id = cave[i].sender_id
          /\ cave'[i].group_id = cave[i].group_id
          /\ cave'[i].group_nick = cave[i].group_nick
          /\ cave'[i].date = cave[i].date
          /\ cave'[i].is_deleted >= cave[i].is_deleted
          /\ cave'[i].pick_count >= cave[i].pick_count
      ]_vars

\* a row that was viewed and then marked deleted, beside a second row
C14_Witness ==
    /\ Cardinality(Ids(cave)) = 2
    /\ \E i \in Ids(cave) : cave[i].is_deleted = 1 /\ cave[i].pick_count >= 1

\* C15: get_cave of the id add_cave has just returned gives a row with the
\* text, sender_id, group_id and group_nick add_cave was called with (the
\* stripped text and the sender of the command), pick_count = 0 and
\* is_deleted = 0.
C15_CreateThenGet ==
    [][ \A p \in Procs :
          (pc[p] = "add_commit" /\ pc'[p] = "idle" /\ out'.key = "add_success")
          => LET a == loc[p].row
                 r == get_cave(cave', out'.cave_id)
             IN  /\ r.cave_id = out'.cave_id /\ r.cave_id >= 1
                 /\ r.text = a.text /\ a.text = strip(out'.arg[1])
                 /\ r.sender_id = a.sender_id /\ a.sender_id = out'.sender
                 /\ r.group_id = a.group_id /\ r.group_nick = a.group_nick
                 /\ r.pick_count = 0
                 /\ r.is_deleted = 0
      ]_vars

\* a row added from a group chat
C15_Witness ==
    /\ out.key = "add_success"
    /\ get_cave(cave, out.cave_id).group_id = 7
    /\ get_cave(cave, out.cave_id).sender_id = 10002

\* the command that was answered by out had an invalid input: "ca" with an
\* empty or too long text, "ci" or "rmcave" with something that is not the
\* numeral of a positive integer, "cf" without keyword, "mycave" with a page
\* below 1
InvalidInput(o) ==
    \/ o.h = "ca" /\ (strip(o.arg[1]) = <<>> \/ Len(strip(o.arg[1])) > max_content_length)
    \/ o.h \in {"ci", "rmcave"} /\ ~PositiveNumeral(strip(o.arg[1]))
    \/ o.h = "cf" /\ strip(o.arg[1]) = <<>>
    \/ o.h = "mycave" /\ o.key # "invalid_number" /\ o.ret.page < 1

\* C16: a command with an invalid input is answered with the message of its
\* rejection in the handler's first step, without any CaveDatabase method being
\* called, and the table, the id sequence and the counts stay as they were.
C16_InvalidRejected ==
    [][ InvalidInput(out')
        => /\ pc[Caller] = "idle" /\ pc'[Caller] = "idle"
           /\ out'.calls = <<>> /\ ~out'.fault
           /\ out'.key \in {"empty_content", "content_too_long", "invalid_cave",
                            "invalid_cave_id", "search_empty_keyword", "page_must_positive"}
           /\ cave' = cave /\ seq' = seq /\ lock' = lock /\ hist' = hist
      ]_vars

\* "ci 0" is turned down while the table holds a row
C16_Witness ==
    /\ out.h = "ci" /\ out.arg = << <<"0">> >> /\ out.key = "invalid_cave"
    /\ out.calls = <<>> /\ Ids(cave) # {}

\* C17: get_random_cave, when it does not raise, returns None exactly when no
\* row of the table has is_deleted = 0; otherwise it returns a row of the table
\* with is_deleted = 0, and each such row is one of its possible results.
C17_RandomActive ==
    LET A == {i \in Ids(cave) : cave[i].is_deleted = 0}
    IN  /\ (out.h = "get_random_cave" /\ ~out.fault) =>
              /\ out.ret = NoRow <=> A = {}
              /\ out.ret # NoRow => out.ret.cave_id \in A /\ out.ret = cave[out.ret.cave_id]
        /\ \A i \in A : cave[i] \in get_random_cave(cave)
        /\ A = {} => get_random_cave(cave) = {NoRow}

\* the older of two rows that are not deleted was drawn
C17_Witness ==
    /\ out.h = "get_random_cave" /\ out.ret.cave_id = 1
    /\ Cardinality({i \in Ids(cave) : cave[i].is_deleted = 0}) = 2

\* the id a queued "ci" or "rmcave" command of handler q names
QueuedFor(q, h) ==
    IF pc[q] = "queued" /\ loc[q].h = h /\ isdigit(strip(loc[q].arg[1]))
    THEN int(strip(loc[q].arg[1])) ELSE 0

\* C18: when cave_inspect or cave_random has fetched a row that is not deleted
\* and its increment_pick_count has not raised, the handler's run has added
\* exactly 1 to pick_count of the fetched row and has changed no other field
\* and no other row: until the increment the row is as it was fetched, and the
\* increment rewrites that one count only.
C18_ViewCountsOnce ==
    [][ \A p \in Procs :
          (/\ pc[p] = "inc_commit" /\ pc'[p] = "idle" /\ loc[p].h \in {"ci", "cq"}
           /\ ~out'.fault)
          => LET i == loc[p].row.cave_id
             IN  /\ out'.key = "cave_detail" /\ out'.cave_id = i
                 /\ loc[p].row.is_deleted = 0
                 /\ i \in Ids(cave) /\ cave[i] = loc[p].row
                 /\ cave' = [cave EXCEPT ![i].pick_count = @ + 1]
                 /\ seq' = seq
      ]_vars

\* cave_random has drawn and counted the older of two rows
C18_Witness ==
    /\ out.h = "cq" /\ out.key = "cave_detail" /\ ~out.fault
    /\ out.cave_id = 1 /\ cave[1].pick_count = 1
    /\ Cardinality(Ids(cave)) = 2

\* C19: remove_cave replies delete_success only in a step that takes the row
\* from is_deleted = 0 to is_deleted = 1, and a remove_cave that runs on a row
\* already marked replies cave_already_deleted: of two removals of one row that
\* wait for the loop together, one reports success and the other
\* cave_already_deleted, never both success.
C19_OneRemoveSucceeds ==
    [][ (out'.h = "rmcave" /\ ~out'.fault /\ out'.cave_id \in Ids(cave))
        => LET i == out'.cave_id
           IN  /\ out'.key = "delete_success"
                     => (cave[i].is_deleted = 0 /\ cave'[i].is_deleted = 1)
               /\ cave[i].is_deleted = 1 => out'.key = "cave_already_deleted"
      ]_vars

\* one of two queued removals of a row, both by requesters who may delete it,
\* has reported success; the other has yet to run
C19_Witness ==
    /\ out.h = "rmcave" /\ out.key = "delete_success"
    /\ \E q \in Procs :
          /\ QueuedFor(q, "rmcave") = out.cave_id
          /\ Authorized(loc[q].sender, cave[out.cave_id].sender_id)
          /\ loc[q].sender # out.sender

\* C20: no step changes pick_count of a row that has is_deleted = 1, whatever
\* cave_inspect, cave_random and remove_cave commands on the row wait for the
\* loop together.
C20_DeletedCountFrozen ==
    [][ \A i \in Ids(cave) :
          cave[i].is_deleted = 1 => cave'[i].pick_count = cave[i].pick_count
      ]_vars

\* a viewed row has been removed while a cave_inspect of it waits for the loop
C20_Witness ==
    /\ out.h = "rmcave" /\ out.key = "delete_success"
    /\ cave[out.cave_id].pick_count >= 1
    /\ \E q \in Procs : QueuedFor(q, "ci") = out.cave_id

\* C21: when cave_inspect or cave_random has replied cave_detail with a
\* pick_count (the count it fetched plus 1), the row's pick_count in the table,
\* right after the handler's increment_pick_count call, is that number, also
\* when the call has raised and returned False.
C21_ReplyCountStored ==
    (out.h \in {"ci", "cq"} /\ out.key = "cave_detail")
    => /\ out.cave_id \in Ids(cave)
       /\ cave[out.cave_id].pick_count = out.pick_count

====
